---- MODULE Spec2Model ----
(***************************************************************************)
(* backend/server.py: the battle lifecycle (create_user_battle,            *)
(* accept_battle, decline_battle, upload_battle_submission), the vote      *)
(* entry points (vote_battle, vote_on_battle), get_battle_results_internal *)
(* and the WebSocket ConnectionManager, acting on the Supabase tables      *)
(* battles, battle_submissions, notifications and votes.  One battle row   *)
(* is followed from its creation on.                                       *)
(*                                                                         *)
(* The specifications share the handlers' code:                            *)
(*   SpecSeq      every lifecycle handler runs from its first to its last  *)
(*                line without another handler in between;                 *)
(*   Spec         lifecycle requests are served by several server          *)
(*                processes that share the store, so handlers interleave   *)
(*                between one store operation and the next;                *)
(*   SpecAccept   accept_battle handlers alone, interleaving between       *)
(*                store operations;                                        *)
(*   SpecNotify   lifecycle and vote requests one at a time, each with     *)
(*                notification inserts that fail;                          *)
(*   SpecVoteSeq  the vote entry points, one request at a time;            *)
(*   SpecVote     vote_battle handlers interleaving between store          *)
(*                operations;                                              *)
(*   SpecResults  get_battle_results_internal on bounded votes tables;     *)
(*   SpecReg      the connection registry, whose coroutines interleave at  *)
(*                their awaits.                                            *)
(* Time is counted in hours.                                               *)
(***************************************************************************)
EXTENDS Integers, FiniteSets, Sequences, TLC

VARIABLES db, now, req, last, calls, accept_ok, manager, sockets, publish

vars == <<db, now, req, last, calls, accept_ok, manager, sockets, publish>>

\* the store, the clock and the HTTP requests
lifeVars == <<db, now, req, last, calls, accept_ok>>

---------------------------------------------------------------------------
(* Bounds of the model *)

\* the clock runs from 0 to MaxNow hours
MaxNow == 3
\* handler calls made after the battle was created
MaxCalls == 5
\* handler calls made after the battle was created (SpecNotify)
MaxNotifyCalls == 2
\* server processes handling requests at the same time (Spec)
MaxProcs == 2
\* handler calls made after the battle was created, in Spec
MaxConcCalls == 3
\* calls of the vote entry points (SpecVoteSeq, SpecVote)
MaxVoteCalls == 3
\* rows of the votes table that get_battle_results_internal reads (SpecResults)
MaxRows == 4
\* websocket connections opened (SpecReg)
MaxConns == 2
\* calls of broadcast_to_battle, which may be in flight together (SpecReg)
MaxPubs == 1

(* Program constants *)

\* timedelta(hours=2) of create_user_battle
AcceptWindowHours == 2
\* timedelta(hours=24) of upload_battle_submission
LiveHours == 24
\* _threshold_met: accepted_count >= 1 for '1v1'
ThresholdOneVOne == 1
\* _threshold_met: accepted_count >= 2 for 'multi'
ThresholdMulti == 2

---------------------------------------------------------------------------
(* Data *)

Creator == "c"
Users == {"c", "u1", "u2", "u3"}
\* the invitation lists a creator sends, one for each number of invitees
\* (the handlers treat the invitees alike)
InviteSets == {{}, {"u1"}, {"u1", "u2"}, {"u1", "u2", "u3"}}
Modes == {"1v1", "multi"}
Procs == 1..MaxProcs

\* a column that holds no value (Python None)
Null == -1

\* titles of the notifications the handlers dispatch
Kinds == {"challenge", "cancelled", "accepted", "joined", "ready", "live", "vote"}

\* the battles spectators connect to
Battles == {"b1", "b2"}
\* the WebSocket objects, one for each call of websocket_endpoint
Conns == 1..MaxConns
\* the callers of broadcast_to_battle
Pubs == 1..MaxPubs

\* websocket_endpoint, line 855: every connection is registered under this
\* user id
AnonymousUser == "anonymous"

\* the users who vote
Voters == {"c", "u1", "u2"}
\* the values of "choice" a request body carries: the two options and
\* one other string
ChoiceInputs == {"A", "B", "X"}

\* the battles table before create_user_battle inserted the row
NoBattle ==
    [status |-> "ABSENT", mode |-> "none", creator_id |-> "none",
     invited_user_ids |-> {}, accepted_user_ids |-> {},
     accept_deadline |-> Null, start_time |-> Null, end_time |-> Null]

\* a process that handles no request
IdleReq ==
    [pc |-> "idle", op |-> "none", uid |-> "none",
     data |-> NoBattle, accepted |-> {}, unique |-> 0,
     choice |-> "none", counts |-> [c \in ChoiceInputs |-> 0]]

NoCall == [op |-> "none", uid |-> "none", result |-> "none"]

\* a WebSocket for which websocket_endpoint has not been called yet; alive
\* tells whether the client's end of the connection is open
\* first is the type of the first event written to it
NoSocket == [st |-> "none", battle |-> "none", alive |-> TRUE, first |-> "none"]

\* a call of broadcast_to_battle that has not been made yet.  While the call
\* runs: sending is the connection whose send_text is awaited, pending the
\* connections the iterator has yet to return, used the size of the set when
\* the iteration began, orphan whether disconnect deleted the battle's key
\* since, disconnected the list of that name, delivered the connections whose
\* send returned, start the battle's set when the call began and gone the
\* connections that had been disconnected from the battle by then.
NoPass ==
    [pc |-> "new", battle |-> "none", sending |-> 0, pending |-> {},
     used |-> 0, orphan |-> FALSE, disconnected |-> {}, delivered |-> {},
     start |-> {}, gone |-> {}, result |-> "none"]

\* the tables before any request: no battle row, no submission, no
\* notification, no vote.  vote_counts is the battles.vote_counts column, a
\* JSON object read with .get(choice, 0).  votes_unique tells whether the
\* votes table of the deployment carries a unique constraint on
\* (battle_id, user_id); the schema is not part of the repository.  down
\* holds the users for whom the insert into notifications raises while the
\* current request is handled.
EmptyStore ==
    [battle |-> NoBattle,
     subs |-> {},
     notifs |-> [u \in Users |-> [k \in Kinds |-> 0]],
     votes |-> << >>,
     vote_counts |-> [c \in ChoiceInputs |-> 0],
     votes_unique |-> TRUE,
     down |-> {}]

---------------------------------------------------------------------------
(* notify_user: one insert into notifications per call; an insert that    *)
(* raises is logged (lines 75-76) and the call returns                     *)

notify_user(S, user_id, kind) ==
    IF user_id \in S.down
    THEN S
    ELSE [S EXCEPT !.notifs[user_id][kind] = @ + 1]

\* for aid in ids: notify_user(aid, ...), then notify_user(extra, ...) n times
NotifyEach(S, ids, extra, n, kind) ==
    [S EXCEPT !.notifs =
        [u \in Users |->
            [k \in Kinds |->
                S.notifs[u][k]
                + (IF k = kind /\ u \in ids \ S.down THEN 1 ELSE 0)
                + (IF k = kind /\ u = extra /\ u \notin S.down THEN n ELSE 0)]]]

---------------------------------------------------------------------------
(* UserBattleCreate.validate_invites and create_user_battle *)

validate_invites(mode, invited) ==
    IF mode = "1v1" THEN Cardinality(invited) = 1 ELSE TRUE

create_user_battle(S, mode, invited, t) ==
    LET record == [status |-> "INVITED", mode |-> mode, creator_id |-> Creator,
                   invited_user_ids |-> invited, accepted_user_ids |-> {},
                   accept_deadline |-> t + AcceptWindowHours,
                   start_time |-> Null, end_time |-> Null]
    IN NotifyEach([S EXCEPT !.battle = record], invited, Creator, 0, "challenge")

---------------------------------------------------------------------------
(* accept_battle *)

_load_acceptance_lists(S) == S.battle

\* _threshold_met with the multi threshold off by one
_threshold_met_multi_at_one(mode, accepted_count) ==
    \/ (mode = "1v1" /\ accepted_count >= 1)
    \/ (mode = "multi" /\ accepted_count >= 1)

_threshold_met(mode, accepted_count) ==
    \/ (mode = "1v1" /\ accepted_count >= ThresholdOneVOne)
    \/ (mode = "multi" /\ accepted_count >= ThresholdMulti)

\* lines 1183-1192 on their own: the write of the accepted list and the
\* notifications of a new acceptance
accept_new(S, data, uid) ==
    LET accepted == data.accepted_user_ids \cup {uid}
        S1 == [S EXCEPT !.battle.accepted_user_ids = accepted,
                        !.battle.status = "INVITED"]
        S2 == notify_user(S1, data.creator_id, "accepted")
        S3 == NotifyEach(S2, accepted \ {data.creator_id, uid}, "none", 0, "joined")
    IN [S |-> S3, result |-> "continue", accepted |-> accepted]

\* accept_write that notifies the creator again when the caller has
\* accepted before
accept_write_renotifying(S, data, uid, t) ==
    IF data.accept_deadline # Null /\ t > data.accept_deadline
    THEN [S |-> notify_user([S EXCEPT !.battle.status = "CANCELLED"],
                            data.creator_id, "cancelled"),
          result |-> "ExpiredWindow", accepted |-> {}]
    ELSE IF uid \notin data.invited_user_ids
    THEN [S |-> S, result |-> "Forbidden", accepted |-> {}]
    ELSE IF uid \in data.accepted_user_ids
    THEN [S |-> notify_user(S, data.creator_id, "accepted"),
          result |-> "ok", accepted |-> {}]
    ELSE accept_new(S, data, uid)

\* accept_write that notifies the creator before it rejects a caller who is
\* not invited
accept_write_rejecting_late(S, data, uid, t) ==
    IF data.accept_deadline # Null /\ t > data.accept_deadline
    THEN [S |-> notify_user([S EXCEPT !.battle.status = "CANCELLED"],
                            data.creator_id, "cancelled"),
          result |-> "ExpiredWindow", accepted |-> {}]
    ELSE IF uid \notin data.invited_user_ids
    THEN [S |-> notify_user(S, data.creator_id, "accepted"),
          result |-> "Forbidden", accepted |-> {}]
    ELSE IF uid \in data.accepted_user_ids
    THEN [S |-> S, result |-> "ok", accepted |-> {}]
    ELSE accept_new(S, data, uid)

\* accept_write without the check that the caller is invited
accept_write_uninvited(S, data, uid, t) ==
    IF data.accept_deadline # Null /\ t > data.accept_deadline
    THEN [S |-> notify_user([S EXCEPT !.battle.status = "CANCELLED"],
                            data.creator_id, "cancelled"),
          result |-> "ExpiredWindow", accepted |-> {}]
    ELSE IF uid \in data.accepted_user_ids
    THEN [S |-> S, result |-> "ok", accepted |-> {}]
    ELSE LET accepted == data.accepted_user_ids \cup {uid}
             S1 == [S EXCEPT !.battle.accepted_user_ids = accepted,
                             !.battle.status = "INVITED"]
             S2 == notify_user(S1, data.creator_id, "accepted")
             S3 == NotifyEach(S2, accepted \ {data.creator_id, uid}, "none", 0, "joined")
         IN [S |-> S3, result |-> "continue", accepted |-> accepted]

\* accept_write with the membership checks made before the deadline check
accept_write_membership_first(S, data, uid, t) ==
    IF uid \notin data.invited_user_ids
    THEN [S |-> S, result |-> "Forbidden", accepted |-> {}]
    ELSE IF uid \in data.accepted_user_ids
    THEN [S |-> S, result |-> "ok", accepted |-> {}]
    ELSE IF data.accept_deadline # Null /\ t > data.accept_deadline
    THEN [S |-> notify_user([S EXCEPT !.battle.status = "CANCELLED"],
                            data.creator_id, "cancelled"),
          result |-> "ExpiredWindow", accepted |-> {}]
    ELSE LET accepted == data.accepted_user_ids \cup {uid}
             S1 == [S EXCEPT !.battle.accepted_user_ids = accepted,
                             !.battle.status = "INVITED"]
             S2 == notify_user(S1, data.creator_id, "accepted")
             S3 == NotifyEach(S2, accepted \ {data.creator_id, uid}, "none", 0, "joined")
         IN [S |-> S3, result |-> "continue", accepted |-> accepted]

\* lines 1171-1192: deadline check, membership checks, the write of the new
\* accepted list together with status INVITED, and the notifications
accept_write(S, data, uid, t) ==
    IF data.accept_deadline # Null /\ t > data.accept_deadline
    THEN [S |-> notify_user([S EXCEPT !.battle.status = "CANCELLED"],
                            data.creator_id, "cancelled"),
          result |-> "ExpiredWindow", accepted |-> {}]
    ELSE IF uid \notin data.invited_user_ids
    THEN [S |-> S, result |-> "Forbidden", accepted |-> {}]
    ELSE IF uid \in data.accepted_user_ids
    THEN [S |-> S, result |-> "ok", accepted |-> {}]
    ELSE accept_new(S, data, uid)

\* accept_threshold that informs every invited user
accept_threshold_informing_invited(S, data, accepted) ==
    IF _threshold_met(data.mode, Cardinality(accepted))
    THEN NotifyEach([S EXCEPT !.battle.status = "UPLOADING"],
                    data.invited_user_ids, data.creator_id, 1, "ready")
    ELSE S

\* accept_threshold when notify_user lets the exception of a failed insert
\* out: the handler has ended at line 1189, before the threshold check
accept_threshold_after_raise(S, data, accepted) ==
    IF data.creator_id \in S.down
    THEN S
    ELSE IF _threshold_met(data.mode, Cardinality(accepted))
    THEN NotifyEach([S EXCEPT !.battle.status = "UPLOADING"],
                    accepted, data.creator_id, 1, "ready")
    ELSE S

\* lines 1194-1201: threshold check, the write of status UPLOADING and the
\* notifications to list(accepted) + [creator_id]
accept_threshold(S, data, accepted) ==
    IF _threshold_met(data.mode, Cardinality(accepted))
    THEN NotifyEach([S EXCEPT !.battle.status = "UPLOADING"],
                    accepted, data.creator_id, 1, "ready")
    ELSE S

\* the whole handler
accept_battle(S, uid, t) ==
    LET data == _load_acceptance_lists(S)
        r == accept_write(S, data, uid, t)
    IN IF r.result = "continue"
       THEN [S |-> accept_threshold(r.S, data, r.accepted), result |-> "ok"]
       ELSE [S |-> r.S, result |-> r.result]

---------------------------------------------------------------------------
(* decline_battle *)

\* decline_battle that takes the caller off the invitation list
decline_battle_removing(S, uid) ==
    LET data == _load_acceptance_lists(S)
    IN IF uid \notin data.invited_user_ids
       THEN [S |-> S, result |-> "Forbidden"]
       ELSE [S |-> [S EXCEPT !.battle.invited_user_ids = @ \ {uid}],
             result |-> "ok"]

\* lines 1210-1216: the membership check; no write
decline_battle(S, uid) ==
    LET data == _load_acceptance_lists(S)
    IN IF uid \notin data.invited_user_ids
       THEN [S |-> S, result |-> "Forbidden"]
       ELSE [S |-> S, result |-> "ok"]

---------------------------------------------------------------------------
(* upload_battle_submission *)

\* the battle's rows of battle_submissions after the upsert of a row of uid.
\* The table is keyed by (battle_id, user_id): the row replaces the one the
\* user has.  subs holds the user_id of each row.
upsert_submission(subs, uid) == subs \cup {uid}

\* upload_upsert that stores the row before it checks the caller
upload_upsert_unchecked(S, data, uid, media) ==
    IF uid # data.creator_id /\ uid \notin data.accepted_user_ids
    THEN [S |-> [S EXCEPT !.subs = upsert_submission(@, uid)], result |-> "Forbidden"]
    ELSE IF ~media
    THEN [S |-> S, result |-> "BadRequest"]
    ELSE [S |-> [S EXCEPT !.subs = upsert_submission(@, uid)], result |-> "continue"]

\* lines 1228-1241: entitlement check, media_url check, upsert of the row
upload_upsert(S, data, uid, media) ==
    IF uid # data.creator_id /\ uid \notin data.accepted_user_ids
    THEN [S |-> S, result |-> "Forbidden"]
    ELSE IF ~media
    THEN [S |-> S, result |-> "BadRequest"]
    ELSE [S |-> [S EXCEPT !.subs = upsert_submission(@, uid)], result |-> "continue"]

\* lines 1245-1246: the number of distinct user_id among the battle's rows
unique_uploaders(S) == Cardinality(S.subs)

\* lines 1244, 1247: unique_uploaders >= required
upload_complete(data, unique) ==
    LET required == Cardinality(data.accepted_user_ids) + 1
    IN unique >= required

\* lines 1247-1255: the write of LIVE with the two clock readings t1 <= t2,
\* and the notifications to list(accepted) + [creator_id]
upload_finish(S, data, unique, t1, t2) ==
    IF upload_complete(data, unique)
    THEN NotifyEach([S EXCEPT !.battle.status = "LIVE",
                              !.battle.start_time = t1,
                              !.battle.end_time = t2 + LiveHours],
                    data.accepted_user_ids, data.creator_id, 1, "live")
    ELSE S

\* upload_battle_submission that counts a second row of the caller as one
\* more uploader
upload_battle_submission_counting_rows(S, uid, media, t1, t2) ==
    LET data == _load_acceptance_lists(S)
        r == upload_upsert(S, data, uid, media)
        rows == unique_uploaders(r.S) + (IF uid \in S.subs THEN 1 ELSE 0)
    IN IF r.result = "continue"
       THEN [S |-> upload_finish(r.S, data, rows, t1, t2), result |-> "ok"]
       ELSE [S |-> r.S, result |-> r.result]

\* the whole handler
upload_battle_submission(S, uid, media, t1, t2) ==
    LET data == _load_acceptance_lists(S)
        r == upload_upsert(S, data, uid, media)
    IN IF r.result = "continue"
       THEN [S |-> upload_finish(r.S, data, unique_uploaders(r.S), t1, t2),
             result |-> "ok"]
       ELSE [S |-> r.S, result |-> r.result]

---------------------------------------------------------------------------
(* vote_battle (POST /battles/{battle_id}/vote) *)

\* the rows of the votes table of user uid
votes_of(S, uid) == {i \in 1..Len(S.votes) : S.votes[i].user_id = uid}

\* lines 1309-1312: the existence check
vote_check(S, uid) ==
    IF votes_of(S, uid) # {} THEN "AlreadyVoted" ELSE "continue"

\* line 1321: the insert; a store with the unique constraint rejects a second
\* row of the same user, the exception reaches line 1343 and becomes the
\* 500 "Failed to vote on battle"
vote_insert(S, uid, choice) ==
    IF S.votes_unique /\ votes_of(S, uid) # {}
    THEN [S |-> S, result |-> "Failed"]
    ELSE [S |-> [S EXCEPT !.votes = Append(@, [user_id |-> uid, choice |-> choice])],
          result |-> "continue"]

\* line 1324-1325: the read of battles.vote_counts
vote_read_counts(S) == S.vote_counts

\* lines 1326-1338: the write of the incremented count, and the notification
\* of the creator when another user voted
vote_write_counts(S, current_counts, uid, choice) ==
    LET S1 == [S EXCEPT !.vote_counts =
                   [current_counts EXCEPT ![choice] = @ + 1]]
    IN IF S.battle.creator_id # uid
       THEN notify_user(S1, S.battle.creator_id, "vote")
       ELSE S1

\* the whole handler; it reads neither the status of the battle nor the clock
vote_battle(S, uid, choice) ==
    IF vote_check(S, uid) # "continue"
    THEN [S |-> S, result |-> vote_check(S, uid)]
    ELSE LET r == vote_insert(S, uid, choice)
         IN IF r.result # "continue"
            THEN r
            ELSE [S |-> vote_write_counts(r.S, vote_read_counts(r.S), uid, choice),
                  result |-> "ok"]

---------------------------------------------------------------------------
(* vote_on_battle (POST /battles-legacy/{battle_id}/vote) *)

\* VoteRequest.validate_choice
validate_choice(v) == v \in {"A", "B"}

\* line 791: upsert of the row keyed by (battle_id, user_id)
vote_upsert(S, uid, choice) ==
    IF votes_of(S, uid) = {}
    THEN [S EXCEPT !.votes = Append(@, [user_id |-> uid, choice |-> choice])]
    ELSE [S EXCEPT !.votes =
             [i \in 1..Len(S.votes) |->
                 IF S.votes[i].user_id = uid
                 THEN [user_id |-> uid, choice |-> choice]
                 ELSE S.votes[i]]]

\* vote_on_battle as it would run if current_user were a UserProfile and the
\* two datetimes of line 779 were comparable
vote_on_battle_reaching_upsert(S, uid, choice, t) ==
    IF ~validate_choice(choice)
    THEN [S |-> S, result |-> "Invalid"]
    ELSE IF S.battle.status = "ABSENT"
    THEN [S |-> S, result |-> "Failed"]
    ELSE IF S.battle.end_time # Null /\ t > S.battle.end_time
    THEN [S |-> S, result |-> "InvalidState"]
    ELSE [S |-> vote_upsert(S, uid, choice), result |-> "ok"]

\* The request body is validated first.  Line 769: .single() raises when no
\* active battle row matches.  Line 779 compares datetime.now(timezone.utc),
\* an aware datetime, with end_time.replace(tzinfo=None), a naive one, which
\* raises TypeError whenever end_time is set.  Line 785 reads current_user.id,
\* but get_current_user returns profile_response.data, a dict (line 392), so
\* the attribute access raises AttributeError.  Each exception is caught at
\* line 817 and answered with status 500; the upsert of line 791 and the
\* broadcast of line 798 are never reached.
vote_on_battle(S, uid, choice, t) ==
    IF ~validate_choice(choice)
    THEN [S |-> S, result |-> "Invalid"]
    ELSE IF S.battle.status = "ABSENT"
    THEN [S |-> S, result |-> "Failed"]
    ELSE IF S.battle.end_time # Null
    THEN [S |-> S, result |-> "Failed"]
    ELSE [S |-> S, result |-> "Failed"]

---------------------------------------------------------------------------
(* get_battle_results_internal *)

\* round(count / total * 100, 1) in tenths of a percent: the nearest tenth,
\* the even one of two equally near (Python's round)
round_percentage(count, total) ==
    LET q == (1000 * count) \div total
        r == (1000 * count) % total
    IN IF 2 * r < total THEN q
       ELSE IF 2 * r > total THEN q + 1
       ELSE IF q % 2 = 0 THEN q ELSE q + 1

\* len([v for v in votes if v["choice"] == option])
option_votes(votes, option) ==
    Len(SelectSeq(votes, LAMBDA v : v.choice = option))

\* get_battle_results_internal with the percentages cut off after the first
\* decimal instead of rounded
get_battle_results_truncating(S) ==
    LET votes == S.votes
        total_votes == Len(votes)
        option_a_votes == option_votes(votes, "A")
        option_b_votes == option_votes(votes, "B")
    IN [total_votes |-> total_votes,
        option_a_votes |-> option_a_votes,
        option_b_votes |-> option_b_votes,
        option_a_percentage |->
            IF total_votes > 0 THEN (1000 * option_a_votes) \div total_votes ELSE 0,
        option_b_percentage |->
            IF total_votes > 0 THEN (1000 * option_b_votes) \div total_votes ELSE 0]

\* the percentages are kept in tenths of a percent (75.0 is 750)
get_battle_results_internal(S) ==
    LET votes == S.votes
        total_votes == Len(votes)
        option_a_votes == option_votes(votes, "A")
        option_b_votes == option_votes(votes, "B")
    IN [total_votes |-> total_votes,
        option_a_votes |-> option_a_votes,
        option_b_votes |-> option_b_votes,
        option_a_percentage |->
            IF total_votes > 0 THEN round_percentage(option_a_votes, total_votes) ELSE 0,
        option_b_percentage |->
            IF total_votes > 0 THEN round_percentage(option_b_votes, total_votes) ELSE 0]

---------------------------------------------------------------------------
(* ConnectionManager *)

\* a dict without keys
EmptyDict == [k \in {} |-> {}]

\* d with key k bound to v
DictSet(d, k, v) == [x \in DOMAIN d \cup {k} |-> IF x = k THEN v ELSE d[x]]

\* d without key k
DictDel(d, k) == [x \in DOMAIN d \ {k} |-> d[x]]

\* f"{battle_id}:{user_id}"
ConnKey(battle_id, user_id) == <<battle_id, user_id>>

\* ConnectionManager.__init__
NewManager == [active_connections |-> EmptyDict, user_connections |-> EmptyDict]

\* connect, lines 119-122 (after websocket.accept() returned)
connect(M, websocket, battle_id, user_id) ==
    LET before == IF battle_id \in DOMAIN M.active_connections
                  THEN M.active_connections[battle_id]
                  ELSE {}
    IN [active_connections |->
            DictSet(M.active_connections, battle_id, before \cup {websocket}),
        user_connections |->
            DictSet(M.user_connections, ConnKey(battle_id, user_id), websocket)]

\* disconnect that pops the index entry and leaves the battle's set alone
disconnect_keeping_set(M, websocket, battle_id, user_id) ==
    [active_connections |-> M.active_connections,
     user_connections |-> DictDel(M.user_connections, ConnKey(battle_id, user_id))]

\* disconnect, lines 126-130
disconnect(M, websocket, battle_id, user_id) ==
    LET active ==
            IF battle_id \in DOMAIN M.active_connections
            THEN LET rest == M.active_connections[battle_id] \ {websocket}
                 IN IF rest = {}
                    THEN DictDel(M.active_connections, battle_id)
                    ELSE DictSet(M.active_connections, battle_id, rest)
            ELSE M.active_connections
    IN [active_connections |-> active,
        user_connections |-> DictDel(M.user_connections, ConnKey(battle_id, user_id))]

\* a send_text of an event of the given type to websocket w is begun
send_started(socks, w, type) ==
    [socks EXCEPT ![w].first = IF @ = "none" THEN type ELSE @]

\* websocket_endpoint that suspends between manager.connect and the
\* send_text of the snapshot
subscribed_before_snapshot(b) ==
    [st |-> "registered", battle |-> b, alive |-> TRUE, first |-> "none"]

\* websocket_endpoint, lines 857-866, from the return of websocket.accept()
\* to the next suspension.  The registration of lines 119-122, the return of
\* connect, get_battle_results_internal (which awaits nothing) and the call
\* of send_text with the battle_state snapshot follow each other without an
\* await that yields to the event loop, so the snapshot is the first event
\* written to the websocket; the coroutine is then suspended in that send.
subscribed(b) ==
    [st |-> "registered", battle |-> b, alive |-> TRUE, first |-> "battle_state"]

\* broadcast_to_battle, lines 147-148: the discard of the connections whose
\* send raised; the key stays in the dict
prune(M, battle_id, disconnected) ==
    [M EXCEPT !.active_connections =
        DictSet(M.active_connections, battle_id,
                M.active_connections[battle_id] \ disconnected)]

---------------------------------------------------------------------------
(* The state after construction: empty tables, no request in flight *)

Init ==
    /\ db = EmptyStore
    /\ now = 0
    /\ req = [p \in Procs |-> IdleReq]
    /\ last = NoCall
    /\ calls = 0
    /\ accept_ok = {}
    /\ manager = NewManager
    /\ sockets = [w \in Conns |-> NoSocket]
    /\ publish = [k \in Pubs |-> NoPass]

Exists == db.battle.status # "ABSENT"

\* the wall clock advances; now counts the hours since the battle's creation,
\* the only time the handlers compare the clock with
Tick ==
    /\ Exists
    /\ now < MaxNow
    /\ now' = now + 1
    /\ UNCHANGED <<db, req, last, calls, accept_ok, manager, sockets, publish>>

\* POST /battles/user by the creator
Create ==
    /\ ~Exists
    /\ \E mode \in Modes, invited \in InviteSets :
          /\ validate_invites(mode, invited)
          /\ db' = create_user_battle(db, mode, invited, now)
    /\ last' = [op |-> "create", uid |-> Creator, result |-> "ok"]
    /\ UNCHANGED <<now, req, calls, accept_ok, manager, sockets, publish>>

---------------------------------------------------------------------------
(* SpecSeq: one request at a time *)

\* a later reading of the clock by the same handler
ClockAfter(t) == {t2 \in {t, t + 1} : t2 <= MaxNow}

\* the upload reaches the write of LIVE and so reads the clock twice
WritesLive(S, u, media) ==
    LET data == _load_acceptance_lists(S)
        r == upload_upsert(S, data, u, media)
    IN r.result = "continue" /\ upload_complete(data, unique_uploaders(r.S))

Accept(u) ==
    /\ Exists /\ calls < MaxCalls
    /\ LET r == accept_battle(db, u, now)
       IN /\ db' = r.S
          /\ last' = [op |-> "accept", uid |-> u, result |-> r.result]
          /\ accept_ok' = IF r.result = "ok" THEN accept_ok \cup {u} ELSE accept_ok
    /\ calls' = calls + 1
    /\ UNCHANGED <<now, req, manager, sockets, publish>>

Decline(u) ==
    /\ Exists /\ calls < MaxCalls
    /\ LET r == decline_battle(db, u)
       IN /\ db' = r.S
          /\ last' = [op |-> "decline", uid |-> u, result |-> r.result]
    /\ calls' = calls + 1
    /\ UNCHANGED <<now, req, accept_ok, manager, sockets, publish>>

Upload(u) ==
    /\ Exists /\ calls < MaxCalls
    /\ \E media \in BOOLEAN, t2 \in ClockAfter(now) :
          LET r == upload_battle_submission(db, u, media, now, t2)
          IN /\ t2 # now => WritesLive(db, u, media)
             /\ db' = r.S
             /\ last' = [op |-> "upload", uid |-> u, result |-> r.result,
                         again |-> u \in db.subs]
             /\ now' = t2
    /\ calls' = calls + 1
    /\ UNCHANGED <<req, accept_ok, manager, sockets, publish>>

NextSeq ==
    \/ Tick
    \/ Create
    \/ \E u \in Users : Accept(u)
    \/ \E u \in Users : Decline(u)
    \/ \E u \in Users : Upload(u)

SpecSeq == Init /\ [][NextSeq]_vars

---------------------------------------------------------------------------
(* Spec: handlers of several processes interleave between store operations *)

\* the handler of process p returns
Return(p) == [req EXCEPT ![p] = IdleReq]

\* a request goes to the first process that handles none
Free(p) == req[p].pc = "idle" /\ \A q \in Procs : q < p => req[q].pc # "idle"

\* process p takes a request and its handler reads the battle row
Begin(p, op, u, pc) ==
    [req EXCEPT ![p] = [IdleReq EXCEPT !.pc = pc, !.op = op, !.uid = u,
                                       !.data = _load_acceptance_lists(db)]]

\* accept_battle, line 1170: the read of the battle row
AcceptLoad(p, u) ==
    /\ Exists /\ calls < MaxConcCalls
    /\ Free(p)
    /\ req' = Begin(p, "accept", u, "accept_write")
    /\ calls' = calls + 1
    /\ UNCHANGED <<db, now, last, accept_ok, manager, sockets, publish>>

\* accept_battle, lines 1171-1192
AcceptWrite(p) ==
    /\ req[p].pc = "accept_write"
    /\ LET r == accept_write(db, req[p].data, req[p].uid, now)
       IN /\ db' = r.S
          /\ IF r.result = "continue"
             THEN req' = [req EXCEPT ![p].pc = "accept_threshold",
                                     ![p].accepted = r.accepted]
             ELSE req' = Return(p)
          /\ accept_ok' = IF r.result = "ok" THEN accept_ok \cup {req[p].uid}
                                              ELSE accept_ok
    /\ UNCHANGED <<now, last, calls, manager, sockets, publish>>

\* accept_battle, lines 1194-1201
AcceptThreshold(p) ==
    /\ req[p].pc = "accept_threshold"
    /\ db' = accept_threshold(db, req[p].data, req[p].accepted)
    /\ req' = Return(p)
    /\ accept_ok' = accept_ok \cup {req[p].uid}
    /\ UNCHANGED <<now, last, calls, manager, sockets, publish>>

\* upload_battle_submission, line 1227: the read of the battle row
UploadLoad(p, u) ==
    /\ Exists /\ calls < MaxConcCalls
    /\ Free(p)
    /\ req' = Begin(p, "upload", u, "upload_upsert")
    /\ calls' = calls + 1
    /\ UNCHANGED <<db, now, last, accept_ok, manager, sockets, publish>>

\* upload_battle_submission, lines 1228-1241
UploadUpsert(p) ==
    /\ req[p].pc = "upload_upsert"
    /\ \E media \in BOOLEAN :
          LET r == upload_upsert(db, req[p].data, req[p].uid, media)
          IN /\ db' = r.S
             /\ IF r.result = "continue"
                THEN req' = [req EXCEPT ![p].pc = "upload_count"]
                ELSE req' = Return(p)
    /\ UNCHANGED <<now, last, calls, accept_ok, manager, sockets, publish>>

\* upload_battle_submission, lines 1245-1246: the read of the submissions
UploadCount(p) ==
    /\ req[p].pc = "upload_count"
    /\ req' = [req EXCEPT ![p].pc = "upload_finish",
                          ![p].unique = unique_uploaders(db)]
    /\ UNCHANGED <<db, now, last, calls, accept_ok, manager, sockets, publish>>

\* upload_battle_submission, lines 1244, 1247-1256
UploadFinish(p) ==
    /\ req[p].pc = "upload_finish"
    /\ \E t2 \in ClockAfter(now) :
          /\ t2 # now => upload_complete(req[p].data, req[p].unique)
          /\ db' = upload_finish(db, req[p].data, req[p].unique, now, t2)
          /\ now' = t2
    /\ req' = Return(p)
    /\ UNCHANGED <<last, calls, accept_ok, manager, sockets, publish>>

Next ==
    \/ Tick
    \/ Create
    \/ \E p \in Procs, u \in Users : AcceptLoad(p, u)
    \/ \E p \in Procs : AcceptWrite(p)
    \/ \E p \in Procs : AcceptThreshold(p)
    \/ \E p \in Procs, u \in Users : UploadLoad(p, u)
    \/ \E p \in Procs : UploadUpsert(p)
    \/ \E p \in Procs : UploadCount(p)
    \/ \E p \in Procs : UploadFinish(p)

Spec == Init /\ [][Next]_vars

---------------------------------------------------------------------------
(* SpecAccept: accept_battle handlers of several processes interleave      *)
(* between store operations; no upload is made                             *)

NextAccept ==
    \/ Tick
    \/ Create
    \/ \E p \in Procs, u \in Users : AcceptLoad(p, u)
    \/ \E p \in Procs : AcceptWrite(p)
    \/ \E p \in Procs : AcceptThreshold(p)

SpecAccept == Init /\ [][NextAccept]_vars

---------------------------------------------------------------------------
(* SpecNotify: one request at a time, each with a set of users for whom    *)
(* the insert into notifications raises while the request is handled       *)

\* the inserts that raise: none, the creator's, the other users', all
DownSets == {{}, {Creator}, Users \ {Creator}, Users}

\* the votes cast while inserts fail: by the creator, who is not notified
\* of the own vote, and by another user
DownVoters == {Creator, "u1"}
DownChoices == {"A", "B"}

\* the store as a request finds it when the inserts for the users of F raise
Called(S, F) == [S EXCEPT !.down = F]
\* the store the request leaves
Served(S) == [S EXCEPT !.down = {}]

CreateDown ==
    /\ ~Exists
    /\ \E mode \in Modes, invited \in InviteSets, F \in DownSets :
          /\ validate_invites(mode, invited)
          /\ db' = Served(create_user_battle(Called(db, F), mode, invited, now))
          /\ last' = [op |-> "create", uid |-> Creator, result |-> "ok"]
    /\ UNCHANGED <<now, req, calls, accept_ok, manager, sockets, publish>>

AcceptDown(u) ==
    /\ Exists /\ calls < MaxNotifyCalls
    /\ \E F \in DownSets :
          LET r == accept_battle(Called(db, F), u, now)
          IN /\ db' = Served(r.S)
             /\ last' = [op |-> "accept", uid |-> u, result |-> r.result,
                         down |-> F]
    /\ calls' = calls + 1
    /\ UNCHANGED <<now, req, accept_ok, manager, sockets, publish>>

UploadDown(u) ==
    /\ Exists /\ calls < MaxNotifyCalls
    /\ \E media \in BOOLEAN, t2 \in ClockAfter(now), F \in DownSets :
          LET r == upload_battle_submission(Called(db, F), u, media, now, t2)
          IN /\ t2 # now => WritesLive(db, u, media)
             /\ db' = Served(r.S)
             /\ last' = [op |-> "upload", uid |-> u, result |-> r.result]
             /\ now' = t2
    /\ calls' = calls + 1
    /\ UNCHANGED <<req, accept_ok, manager, sockets, publish>>

VoteDown(u) ==
    /\ Exists /\ calls < MaxNotifyCalls
    /\ \E choice \in DownChoices, F \in DownSets :
          LET r == vote_battle(Called(db, F), u, choice)
          IN /\ db' = Served(r.S)
             /\ last' = [op |-> "vote", uid |-> u, result |-> r.result,
                         choice |-> choice]
    /\ calls' = calls + 1
    /\ UNCHANGED <<now, req, accept_ok, manager, sockets, publish>>

NextNotify ==
    \/ Tick
    \/ CreateDown
    \/ \E u \in Users : AcceptDown(u)
    \/ \E u \in Users : UploadDown(u)
    \/ \E u \in DownVoters : VoteDown(u)

SpecNotify == Init /\ [][NextNotify]_vars

---------------------------------------------------------------------------
(* SpecVoteSeq: the two vote entry points, one request at a time *)

\* a battle as create_user_battle leaves it
StoreInvited == create_user_battle(EmptyStore, "1v1", {"u1"}, 0)

\* a battle that went LIVE at hour 0: u1 accepted, both participants uploaded
StoreLive ==
    LET accepted == accept_battle(StoreInvited, "u1", 0).S
        first == upload_battle_submission(accepted, "c", TRUE, 0, 0).S
    IN upload_battle_submission(first, "u1", TRUE, 0, 0).S

VoteStores == {StoreInvited, StoreLive}

\* the id of the battle the votes are cast on
VotedBattle == "b1"

\* the first vote arrives while one spectator watches the battle
InitVote ==
    /\ \E S \in VoteStores, unique \in BOOLEAN :
          db = [S EXCEPT !.votes_unique = unique]
    /\ now = 0
    /\ req = [p \in Procs |-> IdleReq]
    /\ last = NoCall
    /\ calls = 0
    /\ accept_ok = {}
    /\ manager = connect(NewManager, 1, VotedBattle, AnonymousUser)
    /\ sockets = [w \in Conns |->
                     IF w = 1 THEN [subscribed(VotedBattle) EXCEPT !.st = "listening"]
                              ELSE NoSocket]
    /\ publish = [k \in Pubs |-> NoPass]

\* the clock passes the end of the 24 hours a LIVE battle is open
WindowPasses ==
    /\ now <= LiveHours
    /\ now' = now + LiveHours + 1
    /\ UNCHANGED <<db, req, last, calls, accept_ok, manager, sockets, publish>>

\* POST /battles/{battle_id}/vote by user u
Vote(u) ==
    /\ calls < MaxVoteCalls
    /\ \E choice \in ChoiceInputs :
          LET r == vote_battle(db, u, choice)
          IN /\ db' = r.S
             /\ last' = [op |-> "vote", uid |-> u, result |-> r.result,
                         choice |-> choice]
    /\ calls' = calls + 1
    /\ UNCHANGED <<now, req, accept_ok, manager, sockets, publish>>

\* POST /battles-legacy/{battle_id}/vote by user u
VoteLegacy(u) ==
    /\ calls < MaxVoteCalls
    /\ \E choice \in ChoiceInputs :
          LET r == vote_on_battle(db, u, choice, now)
          IN /\ db' = r.S
             /\ last' = [op |-> "vote_legacy", uid |-> u, result |-> r.result,
                         choice |-> choice]
    /\ calls' = calls + 1
    /\ UNCHANGED <<now, req, accept_ok, manager, sockets, publish>>

NextVoteSeq ==
    \/ WindowPasses
    \/ \E u \in Voters : Vote(u)
    \/ \E u \in Voters : VoteLegacy(u)

SpecVoteSeq == InitVote /\ [][NextVoteSeq]_vars

---------------------------------------------------------------------------
(* SpecVote: vote_battle handlers of several processes interleave between *)
(* store operations                                                        *)

\* vote_battle, lines 1309-1312: the existence check
VoteCheck(p, u) ==
    /\ calls < MaxVoteCalls
    /\ Free(p)
    /\ \E choice \in ChoiceInputs :
          IF vote_check(db, u) = "continue"
          THEN /\ req' = [req EXCEPT ![p] = [IdleReq EXCEPT !.pc = "vote_insert",
                                                            !.op = "vote",
                                                            !.uid = u,
                                                            !.choice = choice]]
               /\ UNCHANGED last
          ELSE /\ last' = [op |-> "vote", uid |-> u,
                           result |-> vote_check(db, u), choice |-> choice]
               /\ UNCHANGED req
    /\ calls' = calls + 1
    /\ UNCHANGED <<db, now, accept_ok, manager, sockets, publish>>

\* vote_battle, lines 1315-1321: the insert
VoteInsert(p) ==
    /\ req[p].pc = "vote_insert"
    /\ LET r == vote_insert(db, req[p].uid, req[p].choice)
       IN /\ db' = r.S
          /\ IF r.result = "continue"
             THEN /\ req' = [req EXCEPT ![p].pc = "vote_read"]
                  /\ UNCHANGED last
             ELSE /\ req' = Return(p)
                  /\ last' = [op |-> "vote", uid |-> req[p].uid,
                              result |-> r.result, choice |-> req[p].choice]
    /\ UNCHANGED <<now, calls, accept_ok, manager, sockets, publish>>

\* vote_battle, lines 1324-1325: the read of vote_counts
VoteRead(p) ==
    /\ req[p].pc = "vote_read"
    /\ req' = [req EXCEPT ![p].pc = "vote_write",
                          ![p].counts = vote_read_counts(db)]
    /\ UNCHANGED <<db, now, last, calls, accept_ok, manager, sockets, publish>>

\* vote_battle, lines 1326-1340: the write of vote_counts, the notification
\* and the response
VoteWrite(p) ==
    /\ req[p].pc = "vote_write"
    /\ db' = vote_write_counts(db, req[p].counts, req[p].uid, req[p].choice)
    /\ req' = Return(p)
    /\ last' = [op |-> "vote", uid |-> req[p].uid, result |-> "ok",
                choice |-> req[p].choice]
    /\ UNCHANGED <<now, calls, accept_ok, manager, sockets, publish>>

NextVote ==
    \/ WindowPasses
    \/ \E p \in Procs, u \in Voters : VoteCheck(p, u)
    \/ \E p \in Procs : VoteInsert(p)
    \/ \E p \in Procs : VoteRead(p)
    \/ \E p \in Procs : VoteWrite(p)

SpecVote == InitVote /\ [][NextVote]_vars

---------------------------------------------------------------------------
(* SpecResults: get_battle_results_internal on every votes table of up to *)
(* MaxRows rows                                                            *)

\* the rows of a battle in the votes table; the results read only "choice"
VoteTables ==
    UNION {[1..n -> {[user_id |-> "v", choice |-> c] : c \in ChoiceInputs}]
           : n \in 0..MaxRows}

InitResults ==
    /\ \E rows \in VoteTables : db = [StoreLive EXCEPT !.votes = rows]
    /\ now = 0
    /\ req = [p \in Procs |-> IdleReq]
    /\ last = NoCall
    /\ calls = 0
    /\ accept_ok = {}
    /\ manager = NewManager
    /\ sockets = [w \in Conns |-> NoSocket]
    /\ publish = [k \in Pubs |-> NoPass]

\* GET /battles/{battle_id}/results
GetResults ==
    /\ last' = [op |-> "results", uid |-> "none",
                result |-> get_battle_results_internal(db)]
    /\ UNCHANGED <<db, now, req, calls, accept_ok, manager, sockets, publish>>

NextResults == GetResults

SpecResults == InitResults /\ [][NextResults]_vars

---------------------------------------------------------------------------
(* SpecReg: the connection registry.  websocket_endpoint coroutines and    *)
(* callers of broadcast_to_battle run on one event loop and interleave at  *)
(* their awaits.                                                           *)

InitReg ==
    /\ db = EmptyStore
    /\ now = 0
    /\ req = [p \in Procs |-> IdleReq]
    /\ last = NoCall
    /\ calls = 0
    /\ accept_ok = {}
    /\ manager = NewManager
    /\ sockets = [w \in Conns |-> NoSocket]
    /\ publish = [k \in Pubs |-> NoPass]

\* the set object a pass iterates: the one bound to the battle in the dict,
\* unless disconnect deleted the key meanwhile (the pass then holds the
\* emptied set that left the dict)
SetOf(M, b) ==
    IF b \in DOMAIN M.active_connections THEN M.active_connections[b] ELSE {}

\* broadcast_to_battle that iterates the connections of every battle
connections_of_any(M, battle_id) ==
    UNION {M.active_connections[b] : b \in DOMAIN M.active_connections}

\* broadcast_to_battle, lines 134-140: the connections the for loop is
\* started on, none when the battle has no key in the dict
connections_of(M, battle_id) ==
    IF battle_id \in DOMAIN M.active_connections
    THEN M.active_connections[battle_id]
    ELSE {}

\* the passes suspended in a send whose set is the battle's set in the dict
Iterating(b) ==
    {k \in Pubs : /\ publish[k].pc = "sending"
                  /\ publish[k].battle = b
                  /\ ~publish[k].orphan}

\* websocket_endpoint, line 857: manager.connect.  A pass that iterates the
\* battle's set meets the added connection later or not at all, as the slot
\* the set stores it in lies ahead of or behind the iterator.
Connect(w, b) ==
    /\ sockets[w].st = "none"
    /\ \A v \in Conns : v < w => sockets[v].st # "none"
    /\ b = "b2" => sockets[1].st # "none"   \* the first battle watched is b1
    /\ manager' = connect(manager, w, b, AnonymousUser)
    /\ sockets' = [sockets EXCEPT ![w] = subscribed(b)]
    /\ \E ahead \in SUBSET Iterating(b) :
          publish' = [k \in Pubs |->
                         IF k \in ahead
                         THEN [publish[k] EXCEPT !.pending = @ \cup {w}]
                         ELSE publish[k]]
    /\ UNCHANGED lifeVars

\* websocket_endpoint, lines 862-870: the send_text of the battle_state
\* snapshot returns and the endpoint waits in receive_text
Snapshot(w) ==
    /\ sockets[w].st = "registered"
    /\ sockets[w].alive
    /\ sockets' = [send_started(sockets, w, "battle_state") EXCEPT
                      ![w].st = "listening"]
    /\ UNCHANGED <<lifeVars, manager, publish>>

\* the client closes its end of the connection
ClientClose(w) ==
    /\ sockets[w].st \in {"registered", "listening"}
    /\ sockets[w].alive
    /\ sockets' = [sockets EXCEPT ![w].alive = FALSE]
    /\ UNCHANGED <<lifeVars, manager, publish>>

\* websocket_endpoint, lines 876-880: send_text, receive_text or json.loads
\* raised, the endpoint calls manager.disconnect and returns
Disconnect(w) ==
    /\ sockets[w].st \in {"registered", "listening"}
    /\ LET b == sockets[w].battle
           M == disconnect(manager, w, b, AnonymousUser)
       IN /\ manager' = M
          /\ publish' = [k \in Pubs |->
                            IF k \in Iterating(b)
                            THEN [publish[k] EXCEPT
                                     !.pending = @ \ {w},
                                     !.orphan = b \notin DOMAIN M.active_connections]
                            ELSE publish[k]]
    /\ sockets' = [sockets EXCEPT ![w].st = "done", ![w].alive = FALSE]
    /\ UNCHANGED lifeVars

\* the connections of battle b whose endpoint has called disconnect
Gone(b) == {w \in Conns : sockets[w].st = "done" /\ sockets[w].battle = b}

\* a call of broadcast_to_battle that has ended
EndedPass(b, result) == [NoPass EXCEPT !.pc = "done", !.battle = b, !.result = result]

\* broadcast_to_battle, lines 134-142: the key check, the start of the
\* iteration and the first send_text, at which the coroutine is suspended
PublishStart(k, b) ==
    /\ publish[k].pc = "new"
    /\ \A j \in Pubs : j < k => publish[j].pc # "new"
    /\ LET conns == connections_of(manager, b)
       IN IF conns = {}
          THEN /\ publish' = [publish EXCEPT ![k] = EndedPass(b, "ok")]
               /\ UNCHANGED sockets
          ELSE \E w \in conns :
                  /\ publish' = [publish EXCEPT ![k] =
                                    [NoPass EXCEPT !.pc = "sending", !.battle = b,
                                                   !.sending = w,
                                                   !.pending = conns \ {w},
                                                   !.used = Cardinality(conns),
                                                   !.start = conns,
                                                   !.gone = Gone(b)]]
                  /\ sockets' = send_started(sockets, w, "vote_update")
    /\ UNCHANGED <<lifeVars, manager>>

\* broadcast_to_battle, lines 141-144: the connections of pass k whose
\* send_text returned, and those whose send_text raised (the list
\* "disconnected"), once the send the pass is suspended in has ended; a send
\* raises when the client's end is closed
DeliveredAfter(k) ==
    IF sockets[publish[k].sending].alive
    THEN publish[k].delivered \cup {publish[k].sending}
    ELSE publish[k].delivered

DisconnectedAfter(k) ==
    IF sockets[publish[k].sending].alive
    THEN publish[k].disconnected
    ELSE publish[k].disconnected \cup {publish[k].sending}

\* the size the iterator of pass k finds the set to have
SizeSeen(k) ==
    IF publish[k].orphan THEN 0
    ELSE Cardinality(SetOf(manager, publish[k].battle))

\* broadcast_to_battle, lines 140-148: the send_text the pass was suspended
\* in returns or raises; the iterator is asked for the next connection and
\* raises RuntimeError when the size of the set is not the size the
\* iteration started with; after the last connection the connections whose
\* send raised are discarded
PublishStep(k) ==
    /\ publish[k].pc = "sending"
    /\ LET cur == publish[k]
           b == cur.battle
           sent == [cur EXCEPT !.delivered = DeliveredAfter(k),
                               !.disconnected = DisconnectedAfter(k)]
       IN IF SizeSeen(k) # cur.used
          THEN /\ publish' = [publish EXCEPT ![k] = EndedPass(b, "RuntimeError")]
               /\ UNCHANGED <<manager, sockets>>
          ELSE IF cur.pending = {}
          THEN /\ manager' = prune(manager, b, DisconnectedAfter(k))
               /\ publish' = [j \in Pubs |->
                                 IF j = k
                                 THEN EndedPass(b, "ok")
                                 ELSE IF j \in Iterating(b)
                                 THEN [publish[j] EXCEPT
                                          !.pending = @ \ DisconnectedAfter(k)]
                                 ELSE publish[j]]
               /\ UNCHANGED sockets
          ELSE /\ \E next \in cur.pending :
                     /\ publish' = [publish EXCEPT ![k] =
                                       [sent EXCEPT !.sending = next,
                                                    !.pending = @ \ {next}]]
                     /\ sockets' = send_started(sockets, next, "vote_update")
               /\ UNCHANGED manager
    /\ UNCHANGED lifeVars

NextReg ==
    \/ \E w \in Conns, b \in Battles : Connect(w, b)
    \/ \E w \in Conns : Snapshot(w)
    \/ \E w \in Conns : ClientClose(w)
    \/ \E w \in Conns : Disconnect(w)
    \/ \E k \in Pubs, b \in Battles : PublishStart(k, b)
    \/ \E k \in Pubs : PublishStep(k)

SpecReg == InitReg /\ [][NextReg]_vars

---------------------------------------------------------------------------
(* Properties *)

Status == db.battle.status
Accepted == db.battle.accepted_user_ids
Invited == db.battle.invited_user_ids

\* the lifecycle order INVITED < UPLOADING < LIVE < ENDED
Ordered == {"INVITED", "UPLOADING", "LIVE", "ENDED"}
StatusRank(st) ==
    CASE st = "INVITED" -> 1
      [] st = "UPLOADING" -> 2
      [] st = "LIVE" -> 3
      [] st = "ENDED" -> 4
      [] OTHER -> 0

\* C1: when the Accept calls of two distinct users have both returned success,
\* both users are in the stored accepted_user_ids (no acceptance is lost),
\* also when the calls interleave between store operations.
C1_NoAcceptanceLost ==
    \A u, v \in accept_ok : u # v => {u, v} \subseteq Accepted

\* C2: no call moves the stored status backward in the order
\* INVITED < UPLOADING < LIVE < ENDED.
C2_StatusNeverBackward ==
    [][(Status \in Ordered /\ Status' \in Ordered)
          => StatusRank(Status') >= StatusRank(Status)]_vars

\* C3: in every state where the status is LIVE, the creator and every user of
\* the stored accepted_user_ids has a Submission row, also when Upload calls
\* interleave with Accept calls.
C3_LiveHasAllSubmissions ==
    Status = "LIVE" => (Accepted \cup {db.battle.creator_id}) \subseteq db.subs

\* C4: concurrent Accept calls of the one invitee of a 1v1 battle dispatch the
\* "accepted" notification to the creator once, and write UPLOADING and
\* dispatch the ready-to-upload notification to each participant once.
C4_OneAcceptDispatch ==
    db.battle.mode = "1v1" =>
        /\ db.notifs[Creator]["accepted"] <= 1
        /\ \A u \in Users : db.notifs[u]["ready"] <= 1

\* the accepted count at which a battle of the mode leaves INVITED
Threshold(mode) == IF mode = "1v1" THEN ThresholdOneVOne ELSE ThresholdMulti

\* C5: in a run of Accept calls made before the deadline (no submission
\* exists yet), the status after an Accept is UPLOADING exactly when the
\* accepted count has reached the mode's threshold (1 for 1v1, 2 for multi)
\* and INVITED otherwise, and the battle leaves INVITED exactly in the Accept
\* that brings the count to the threshold.
C5_UploadingAtThreshold ==
    [][\A u \in Users :
          (Accept(u) /\ now <= db.battle.accept_deadline /\ db.subs = {})
          => LET n == Cardinality(Accepted)
                 m == Cardinality(Accepted')
                 k == Threshold(db.battle.mode)
             IN /\ Status' = (IF m >= k THEN "UPLOADING" ELSE "INVITED")
                /\ (Status = "INVITED" /\ Status' = "UPLOADING")
                      <=> (n = k - 1 /\ m = k)]_vars

\* a multi battle in which the second acceptance has just been made
C5_Witness ==
    /\ last.op = "accept" /\ last.result = "ok"
    /\ db.battle.mode = "multi"
    /\ Cardinality(Accepted) = ThresholdMulti
    /\ Status = "UPLOADING"
    /\ db.subs = {}

\* C6: an Accept evaluated after accept_deadline leaves the status CANCELLED,
\* fails with ExpiredWindow and does not change accepted_user_ids, whoever the
\* caller is and however many accepts preceded it.
C6_LateAcceptCancels ==
    [][\A u \in Users :
          (Accept(u) /\ now > db.battle.accept_deadline)
          => /\ Status' = "CANCELLED"
             /\ last'.result = "ExpiredWindow"
             /\ Accepted' = Accepted]_vars

\* a late Accept by a user who is not invited, after an earlier acceptance
C6_Witness ==
    /\ last.op = "accept" /\ last.result = "ExpiredWindow"
    /\ last.uid \notin Invited
    /\ Accepted # {}
    /\ Status = "CANCELLED"

\* C7: CANCELLED is entered from INVITED only.
C7_CancelOnlyFromInvited ==
    [][(Status' = "CANCELLED" /\ Status # "CANCELLED") => Status = "INVITED"]_vars

\* C8: once the status is CANCELLED no call changes it.
C8_CancelledIsTerminal ==
    [][Status = "CANCELLED" => Status' = "CANCELLED"]_vars

\* C9: LIVE is entered from UPLOADING only.
C9_LiveOnlyFromUploading ==
    [][(Status' = "LIVE" /\ Status # "LIVE") => Status = "UPLOADING"]_vars

\* C10: an Upload on a battle that is LIVE fails with InvalidState, leaves
\* status, start_time and end_time unchanged and dispatches no LIVE
\* notification.
C10_UploadAfterLiveRejected ==
    [][\A u \in Users :
          (Upload(u) /\ Status = "LIVE")
          => /\ last'.result = "InvalidState"
             /\ db'.battle = db.battle
             /\ \A v \in Users : db'.notifs[v]["live"] = db.notifs[v]["live"]]_vars

---------------------------------------------------------------------------
(* Votes *)

\* the vote rows and the stored tallies are left as they were
VotesUntouched == db'.votes = db.votes /\ db'.vote_counts = db.vote_counts

\* C11: a call of a vote entry point with choice A or B by a user who already
\* has a vote row fails with AlreadyVoted and changes neither the vote rows
\* nor the tallies
C11_SecondVoteAlreadyVoted ==
    [][\A u \in Voters :
          (/\ votes_of(db, u) # {}
           /\ (Vote(u) \/ VoteLegacy(u))
           /\ validate_choice(last'.choice))
          => (last'.result = "AlreadyVoted" /\ VotesUntouched)]_vars

\* C12: when vote_battle calls interleave, no user ever has more than one
\* vote row, and a call whose insert the store rejected returns AlreadyVoted
C12_ConcurrentVotesOnce ==
    /\ [](\A u \in Voters : Cardinality(votes_of(db, u)) <= 1)
    /\ [][\A p \in Procs :
             (VoteInsert(p) /\ req'[p].pc = "idle")
             => last'.result = "AlreadyVoted"]_vars

\* the battle is not open for votes: it is not LIVE or its end_time passed
VotingClosed ==
    \/ db.battle.status # "LIVE"
    \/ (db.battle.end_time # Null /\ now > db.battle.end_time)

\* C13: a call of a vote entry point on a battle that is not LIVE, or after
\* its end_time, fails with InvalidState and changes neither the vote rows
\* nor the tallies
C13_VoteOnlyWhileLive ==
    [][\A u \in Voters :
          (/\ VotingClosed
           /\ (Vote(u) \/ VoteLegacy(u))
           /\ validate_choice(last'.choice))
          => (last'.result = "InvalidState" /\ VotesUntouched)]_vars

RowsWith(option) == {i \in 1..Len(db.votes) : db.votes[i].choice = option}

\* p, in tenths of a percent, is count / total * 100 rounded to one decimal
NearestTenth(p, count, total) ==
    /\ 2 * (p * total - 1000 * count) <= total
    /\ 2 * (1000 * count - p * total) <= total

\* C15: the results carry the number of vote rows as total, the numbers of
\* rows with choice A and with choice B as counts, and count / total * 100
\* rounded to one decimal as percentages, both 0 when there is no row; no
\* rows give 0, 0, 0, 0.0, 0.0 and three A with one B give 4, 3, 1, 75.0, 25.0
C15_ResultsFromRows ==
    last.op = "results" =>
        LET r == last.result
            total == Len(db.votes)
            a == Cardinality(RowsWith("A"))
            b == Cardinality(RowsWith("B"))
        IN /\ r.total_votes = total
           /\ r.option_a_votes = a
           /\ r.option_b_votes = b
           /\ total = 0 => (r.option_a_percentage = 0 /\ r.option_b_percentage = 0)
           /\ total > 0 => /\ NearestTenth(r.option_a_percentage, a, total)
                           /\ NearestTenth(r.option_b_percentage, b, total)
           /\ (total = 4 /\ a = 3 /\ b = 1)
              => (r.option_a_percentage = 750 /\ r.option_b_percentage = 250)

\* the results of a table of three votes for A and one for B
C15_Witness ==
    /\ last.op = "results"
    /\ Len(db.votes) = 4
    /\ Cardinality(RowsWith("A")) = 3
    /\ Cardinality(RowsWith("B")) = 1
    /\ last.result.total_votes = 4

---------------------------------------------------------------------------
(* Connection registry *)

\* C16: no battle id of active_connections is bound to an empty set
C16_NoEmptySet ==
    \A b \in DOMAIN manager.active_connections :
        manager.active_connections[b] # {}

\* pass k ends in this step, by returning or by raising
PassEnds(k) == publish[k].pc = "sending" /\ publish'[k].pc = "done"

\* C17: a broadcast_to_battle call during whose sends connections were
\* connected to or disconnected from the battle does not fail, and when it
\* returns it has made a send to every connection that was in the battle's
\* set from its start to its end
C17_PublishSurvivesChanges ==
    /\ [](\A k \in Pubs : publish[k].result # "RuntimeError")
    /\ [][\A k \in Pubs :
             PassEnds(k) =>
                 \A w \in publish[k].start \cap SetOf(manager, publish[k].battle) :
                     w \in DeliveredAfter(k) \cup DisconnectedAfter(k)]_vars

\* C18: when a broadcast_to_battle call ends, no connection whose send
\* raised during the call is in the battle's set, and every connection whose
\* send returned and that was in the set before the end still is
C18_PrunedAfterPublish ==
    [][\A k \in Pubs :
          PassEnds(k) =>
              /\ DisconnectedAfter(k) \cap SetOf(manager', publish[k].battle) = {}
              /\ \A w \in DeliveredAfter(k) \cap SetOf(manager, publish[k].battle) :
                    w \in SetOf(manager', publish[k].battle)]_vars

\* the connection a key of user_connections is bound to is in its battle's set
Registered(M, key) == M.user_connections[key] \in SetOf(M, key[1])

\* C19: disconnect of a connection that is not in its battle's set changes
\* no battle's set of connections and removes no entry of user_connections
\* that is bound to another connection, one that is in its battle's set
C19_UnsubscribeUnknownNoOp ==
    [][\A w \in Conns :
          (Disconnect(w) /\ w \notin SetOf(manager, sockets[w].battle))
          => /\ \A b \in Battles : SetOf(manager', b) = SetOf(manager, b)
             /\ \A key \in DOMAIN manager.user_connections :
                   (manager.user_connections[key] # w /\ Registered(manager, key))
                   => /\ key \in DOMAIN manager'.user_connections
                      /\ manager'.user_connections[key] = manager.user_connections[key]]_vars

\* C20: a broadcast_to_battle call makes no send to a connection that had
\* been disconnected from the battle when the call began
C20_NoDeliveryAfterUnsubscribe ==
    \A k \in Pubs :
        publish[k].pc = "sending" => publish[k].sending \notin publish[k].gone

\* a call that began after a connection of the battle had been disconnected
\* is suspended in a send to another connection
C20_Witness ==
    \E k \in Pubs : publish[k].pc = "sending" /\ publish[k].gone # {}

---------------------------------------------------------------------------
(* Events *)

\* a call of broadcast_to_battle for the voted battle begins in this step,
\* with the connections registered for the battle
PublishBegins ==
    \E k \in Pubs :
        /\ publish[k].pc = "new"
        /\ publish'[k].pc # "new"
        /\ publish'[k].battle = VotedBattle
        /\ publish'[k].start = SetOf(manager, VotedBattle)

\* C21: every call of a vote entry point that succeeds starts the publication
\* of a vote_update event to the connections registered for the battle
C21_VotePublishesUpdate ==
    [][\A u \in Voters :
          ((Vote(u) \/ VoteLegacy(u)) /\ last'.result = "ok")
          => PublishBegins]_vars

\* C22: no vote_update is ever the first event written to a connection, and
\* the battle_state snapshot has been written to every registered connection
C22_SnapshotFirst ==
    \A w \in Conns :
        /\ sockets[w].first # "vote_update"
        /\ sockets[w].st \in {"registered", "listening"}
              => sockets[w].first = "battle_state"

\* a publish is suspended in a send to a connection whose endpoint is still
\* suspended in the send of its snapshot
C22_Witness ==
    \E k \in Pubs :
        /\ publish[k].pc = "sending"
        /\ sockets[publish[k].sending].st = "registered"
        /\ sockets[publish[k].sending].alive

\* C23: a broadcast_to_battle call has, when it ends, made a send to every
\* connection that was registered for the battle when it began, and a call
\* that has ended makes no further send
C23_OneSendNoReplay ==
    /\ [][\A k \in Pubs :
             PassEnds(k) =>
                 \A w \in publish[k].start :
                     w \in DeliveredAfter(k) \cup DisconnectedAfter(k)]_vars
    /\ [][\A k \in Pubs :
             publish[k].pc = "done" => publish'[k] = publish[k]]_vars

---------------------------------------------------------------------------
(* Invitations and acceptances *)

\* C24: a battle exists only with an invitation list its mode allows: one
\* invitee for 1v1, two or three for multi
C24_InviteSetValid ==
    Exists =>
        /\ db.battle.mode = "1v1" => Cardinality(Invited) = 1
        /\ db.battle.mode = "multi" => Cardinality(Invited) \in {2, 3}

\* C25: accepted_user_ids is a subset of invited_user_ids, whatever the
\* interleaving of the accept handlers
C25_AcceptedAreInvited == Accepted \subseteq Invited

\* an accept handler has overwritten the acceptance another one had written
C25_Witness ==
    /\ Accepted # {}
    /\ ~(accept_ok \subseteq Accepted)

\* the number of ready-to-upload notifications of user x
Ready(S, x) == S.notifs[x]["ready"]

\* C26: in a multi battle with three invitees, the Accept that makes the
\* second acceptance sets the status to UPLOADING and dispatches one
\* ready-to-upload notification to the creator and to each of the two
\* accepted users, and none to anyone else
C26_ReadyToCreatorAndAcceptors ==
    [][\A u \in Users :
          (/\ Accept(u)
           /\ db.battle.mode = "multi"
           /\ Cardinality(Invited) = 3
           /\ Cardinality(Accepted) = 1
           /\ Cardinality(Accepted') = 2)
          => /\ Status' = "UPLOADING"
             /\ \A x \in Users :
                   Ready(db', x) - Ready(db, x) =
                       (IF x \in Accepted' \cup {db.battle.creator_id} THEN 1 ELSE 0)]_vars

\* two of three invitees have accepted, the third has no ready notification
C26_Witness ==
    /\ last.op = "accept" /\ last.result = "ok"
    /\ db.battle.mode = "multi"
    /\ Cardinality(Invited) = 3
    /\ Cardinality(Accepted) = 2
    /\ Status = "UPLOADING"
    /\ \A x \in Accepted \cup {db.battle.creator_id} : Ready(db, x) = 1
    /\ \A x \in Invited \ Accepted : Ready(db, x) = 0

\* a user who has to upload before the battle goes LIVE has no submission
SubmitterMissing ==
    \E x \in Accepted \cup {db.battle.creator_id} : x \notin db.subs

C28_RepeatedAcceptNoEffect ==
    [][\A u \in Users :
          (Accept(u) /\ now <= db.battle.accept_deadline /\ u \in Accepted)
          => (last'.result = "ok" /\ db' = db)]_vars

\* the last call was a successful Accept by a user who had uploaded, and so
\* had accepted, before
C28_Witness ==
    /\ last.op = "accept" /\ last.result = "ok"
    /\ last.uid \in db.subs
    /\ now <= db.battle.accept_deadline

\* C29: an Accept before the deadline by a user who is not in
\* invited_user_ids fails with Forbidden and leaves the store unchanged
C29_UninvitedAcceptForbidden ==
    [][\A u \in Users :
          (Accept(u) /\ now <= db.battle.accept_deadline /\ u \notin Invited)
          => (last'.result = "Forbidden" /\ db' = db)]_vars

\* an Accept was rejected as Forbidden in a battle that has acceptances
C29_Witness ==
    /\ last.op = "accept" /\ last.result = "Forbidden"
    /\ last.uid \notin Invited
    /\ Accepted # {}

\* C30: an Upload by a user who is neither the creator nor in
\* accepted_user_ids fails with Forbidden and leaves the store unchanged
C30_UploadNotEntitledForbidden ==
    [][\A u \in Users :
          (Upload(u) /\ u # db.battle.creator_id /\ u \notin Accepted)
          => (last'.result = "Forbidden" /\ db' = db)]_vars

\* an Upload of an invited user who has not accepted was rejected
C30_Witness ==
    /\ last.op = "upload" /\ last.result = "Forbidden"
    /\ last.uid \in Invited \ Accepted
    /\ db.subs # {}

---------------------------------------------------------------------------
(* Decline, times, notification failures *)

\* C31: a Decline leaves the store as it is (status, invited_user_ids,
\* accepted_user_ids, notifications), whether it succeeds for an invited
\* caller or fails with Forbidden for another
C31_DeclineChangesNothing ==
    [][\A u \in Users :
          Decline(u)
          => /\ db' = db
             /\ last'.result = (IF u \in Invited THEN "ok" ELSE "Forbidden")]_vars

\* an invited user has declined a battle nobody accepted, which is INVITED
C31_Witness ==
    /\ last.op = "decline" /\ last.result = "ok"
    /\ last.uid \in Invited
    /\ Accepted = {}
    /\ Status = "INVITED"

\* start_time or end_time holds a value
TimesSet == db.battle.start_time # Null \/ db.battle.end_time # Null

\* C32: start_time and end_time get their first values in a step that makes
\* the battle LIVE, and whenever they hold values end_time is start_time
\* plus 24 hours
C32_StartEndTimes ==
    /\ [](TimesSet => db.battle.end_time = db.battle.start_time + LiveHours)
    /\ [][(~TimesSet /\ TimesSet') => Status' = "LIVE"]_vars

\* the tables other than notifications
Primary(S) == [S EXCEPT !.notifs = EmptyStore.notifs]

\* C33: whatever notification inserts fail during a Create, Accept, Upload
\* or Vote, the response and the tables other than notifications are those
\* of the same call with no failure (last' names the call a step has made)
C33_DispatchFailureSwallowed ==
    [][/\ (~Exists /\ Exists') =>
             /\ Primary(db') = Primary(create_user_battle(db, db'.battle.mode,
                                           db'.battle.invited_user_ids, now))
             /\ last'.result = "ok"
       /\ (calls' # calls /\ last'.op = "accept") =>
             LET r == accept_battle(db, last'.uid, now)
             IN Primary(db') = Primary(r.S) /\ last'.result = r.result
       /\ (calls' # calls /\ last'.op = "upload") =>
             \E media \in BOOLEAN :
                 LET r == upload_battle_submission(db, last'.uid, media, now, now')
                 IN Primary(db') = Primary(r.S) /\ last'.result = r.result
       /\ (calls' # calls /\ last'.op = "vote") =>
             LET r == vote_battle(db, last'.uid, last'.choice)
             IN Primary(db') = Primary(r.S) /\ last'.result = r.result]_vars

\* the Accept that met the threshold succeeded and made the battle UPLOADING
\* although the notifications of the creator failed
C33_Witness ==
    /\ last.op = "accept" /\ last.result = "ok"
    /\ db.battle.creator_id \in last.down
    /\ Status = "UPLOADING"
    /\ Ready(db, db.battle.creator_id) = 0

\* C34: a broadcast_to_battle call in which a send raised ends without an
\* exception for its caller
C34_SendFailureNotSurfaced ==
    [][\A k \in Pubs :
          (PassEnds(k) /\ DisconnectedAfter(k) # {})
          => publish'[k].result = "ok"]_vars

\* C35: an Accept of a new user when the threshold was met before and the
\* status is not INVITED leaves the status as it is and dispatches no
\* ready-to-upload notification
C35_NoSecondReady ==
    [][\A u \in Users :
          (/\ Accept(u)
           /\ now <= db.battle.accept_deadline
           /\ u \in Invited \ Accepted
           /\ _threshold_met(db.battle.mode, Cardinality(Accepted))
           /\ Status # "INVITED")
          => /\ Status' = Status
             /\ \A x \in Users : Ready(db', x) = Ready(db, x)]_vars

---------------------------------------------------------------------------
(* Vote rows and tallies *)

\* C36: every row of the votes table has choice A or B, so the results have
\* total_votes = option_a_votes + option_b_votes
C36_ChoiceIsAOrB ==
    /\ \A i \in 1..Len(db.votes) : db.votes[i].choice \in {"A", "B"}
    /\ LET r == get_battle_results_internal(db)
       IN r.total_votes = r.option_a_votes + r.option_b_votes

\* no two rows of the votes table belong to the same user
DistinctVoters ==
    \A i, j \in 1..Len(db.votes) :
        i # j => db.votes[i].user_id # db.votes[j].user_id

\* C37: when every vote_battle call has returned and the votes are those of
\* distinct users, vote_counts holds for each choice the number of rows with
\* that choice
C37_CountsMatchRows ==
    ((\A p \in Procs : req[p].pc = "idle") /\ DistinctVoters)
    => \A c \in ChoiceInputs : db.vote_counts[c] = option_votes(db.votes, c)

---------------------------------------------------------------------------
(* The registry's index and the frame of a publish *)

\* C38: every entry of user_connections is bound to a connection that is in
\* the set of its battle
C38_IndexInSet ==
    \A key \in DOMAIN manager.user_connections : Registered(manager, key)

\* pass k begins a send in this step
SendBegins(k) ==
    /\ publish'[k].pc = "sending"
    /\ publish[k].pc = "sending" => publish'[k].sending # publish[k].sending

\* C39: a broadcast_to_battle call sends only to connections registered for
\* its battle and leaves the sets of the other battles as they are; a call
\* for a battle without connections sends nothing and changes nothing
C39_PublishFrame ==
    /\ [][\A k \in Pubs :
             SendBegins(k) =>
                 /\ sockets[publish'[k].sending].battle = publish'[k].battle
                 /\ sockets[publish'[k].sending].st \in {"registered", "listening"}]_vars
    /\ [][\A k \in Pubs :
             ((\E b \in Battles : PublishStart(k, b)) \/ PublishStep(k)) =>
                 \A b2 \in Battles \ {publish'[k].battle} :
                     /\ b2 \in DOMAIN manager'.active_connections
                           <=> b2 \in DOMAIN manager.active_connections
                     /\ SetOf(manager', b2) = SetOf(manager, b2)]_vars
    /\ [][\A k \in Pubs, b \in Battles :
             (PublishStart(k, b) /\ SetOf(manager, b) = {}) =>
                 /\ manager' = manager
                 /\ sockets' = sockets
                 /\ publish'[k] = EndedPass(b, "ok")]_vars

\* a call is suspended in a send while a connection watches another battle
C39_Witness ==
    \E k \in Pubs, w \in Conns :
        /\ publish[k].pc = "sending"
        /\ sockets[w].st \in {"registered", "listening"}
        /\ sockets[w].battle # publish[k].battle

====
